---- MODULE Spec2Model ----
(***************************************************************************)
(* Model of src/app.py: a Streamlit page that classifies a pasted news     *)
(* article with a pre-trained model and explains the verdict with a remote *)
(* text-generation endpoint, falling back to a canned text.                *)
(*                                                                         *)
(* One script run of the page is a sequence of steps (pc); the process     *)
(* keeps the loaded classifier (lr_model) and the st.cache_data memo of    *)
(* explain_with_huggingface (cache) between runs.                          *)
(*                                                                         *)
(* Strings are sequences of tokens; " ", "\n" and "\t" are the whitespace  *)
(* tokens.  The emoji of the canned texts are left out of the literals.    *)
(***************************************************************************)
EXTENDS Integers, Sequences, FiniteSets, TLC

VARIABLES
    lr_model,    \* the loaded classifier: article -> label (lines 8-9, 45-47)
    cache,       \* st.cache_data memo of explain_with_huggingface (line 52)
    posted,      \* requests.post calls issued so far, per memo key
    pc,          \* position of the current script run
    news_text,   \* content of the text area (line 120)
    button,      \* TRUE iff "Check News" was clicked for this run (line 121)
    result,      \* label returned by predict_fake_news (line 136)
    verdict_text,\* text of the verdict box (line 140), <<>> when not drawn
    shown,       \* elements drawn on the page by this run
    calls,       \* functions whose body this run has entered
    served,      \* how line 161 was served: "none", "hit" or "miss"
    secrets,     \* what st.secrets held when line 74 ran
    response,    \* outcome of requests.post (lines 79-84)
    data,        \* response.json() (line 86)
    exc,         \* exception caught at line 92, "none" when none
    reqs,        \* requests.post calls of this run
    warnings,    \* "Hugging Face API failed" warnings of this run
    ret,         \* (explanation, is_dynamic) received at line 161
    lines        \* explanation.strip().split('\n') (line 162)

vars == <<lr_model, cache, posted, pc, news_text, button, result, verdict_text,
          shown, calls, served, secrets, response, data, exc, reqs, warnings,
          ret, lines>>

(***************************************************************************)
(* Bounds and program constants                                            *)
(***************************************************************************)
\* Cap of the request counters (reqs, posted).
MaxRequests == 3

\* max_tokens=500 (default argument, part of the memo key)
MaxTokensDefault == 500
\* temperature=0.7 (default argument, part of the memo key)
TemperatureDefault == "0.7"
\* timeout=60 of requests.post
PostTimeout == 60

(***************************************************************************)
(* Strings                                                                 *)
(***************************************************************************)
Whitespace == {" ", "\n", "\t"}

RECURSIVE LStrip(_)
LStrip(s) ==
    IF s # <<>> /\ Head(s) \in Whitespace THEN LStrip(Tail(s)) ELSE s

RECURSIVE RStrip(_)
RStrip(s) ==
    IF s # <<>> /\ s[Len(s)] \in Whitespace
    THEN RStrip(SubSeq(s, 1, Len(s) - 1))
    ELSE s

\* str.strip()
Strip(s) == RStrip(LStrip(s))

\* str.split('\n'): the pieces between the newlines, empty pieces kept
RECURSIVE SplitLines(_, _, _)
SplitLines(s, cur, acc) ==
    IF s = <<>> THEN Append(acc, cur)
    ELSE IF Head(s) = "\n" THEN SplitLines(Tail(s), <<>>, Append(acc, cur))
    ELSE SplitLines(Tail(s), Append(cur, Head(s)), acc)

Split(s) == SplitLines(s, <<>>, <<>>)

\* Faulty variant of IsBlank: the text is compared without strip().
IsBlankNoStrip(s) == s = <<>>

\* `not news_text.strip()`
IsBlank(s) == Strip(s) = <<>>

(***************************************************************************)
(* Inputs                                                                  *)
(***************************************************************************)
\* Articles the user may paste: empty, whitespace-only, plain, padded.
Articles == { <<>>, <<" ", "\n">>, <<"a">>, <<" ", "b", "\n">> }

Labels == {0, 1}

\* Texts the service may generate.
GenTexts == { <<>>, <<"t">>, <<" ", "l1", "\n", "l2", "\n">> }

(***************************************************************************)
(* Python values and JSON documents                                        *)
(***************************************************************************)
PyNone == [py |-> "NoneType"]
PyStr(s) == [py |-> "str", s |-> s]
PyInt(n) == [py |-> "int", n |-> n]
PyList(items) == [py |-> "list", items |-> items]
PyDict(d) == [py |-> "dict", d |-> d]

JNull == [type |-> "null"]
JStr(s) == [type |-> "string", str |-> s]
JNum(n) == [type |-> "number", num |-> n]
JArr(items) == [type |-> "array", items |-> items]
JObj(f) == [type |-> "object", fields |-> f]

\* {"k": v}
JObj1(k, v) == JObj([x \in {k} |-> v])
\* {"k1": v1, "k2": v2}
JObj2(k1, v1, k2, v2) == JObj([x \in {k1, k2} |-> IF x = k1 THEN v1 ELSE v2])

\* response.json() on a body that is a JSON document
RECURSIVE ToPython(_)
ToPython(j) ==
    CASE j.type = "null" -> PyNone
      [] j.type = "string" -> PyStr(j.str)
      [] j.type = "number" -> PyInt(j.num)
      [] j.type = "array" ->
            PyList([i \in 1..Len(j.items) |-> ToPython(j.items[i])])
      [] j.type = "object" ->
            PyDict([k \in DOMAIN j.fields |-> ToPython(j.fields[k])])

Raised(e) == [ok |-> FALSE, exc |-> e]
Value(v) == [ok |-> TRUE, val |-> v]

\* Faulty variant of GetItem0: data[-1], the last element.
GetItemLast(x) ==
    CASE x.py = "dict" -> Raised("KeyError")
      [] x.py = "list" ->
            IF Len(x.items) = 0 THEN Raised("IndexError")
            ELSE Value(x.items[Len(x.items)])
      [] x.py = "str" ->
            IF Len(x.s) = 0 THEN Raised("IndexError")
            ELSE Value(PyStr(<<x.s[Len(x.s)]>>))
      [] OTHER -> Raised("TypeError")

\* data[0]
GetItem0(x) ==
    CASE x.py = "dict" -> Raised("KeyError")       \* JSON keys are strings
      [] x.py = "list" ->
            IF Len(x.items) = 0 THEN Raised("IndexError")
            ELSE Value(x.items[1])
      [] x.py = "str" ->
            IF Len(x.s) = 0 THEN Raised("IndexError")
            ELSE Value(PyStr(<<Head(x.s)>>))
      [] OTHER -> Raised("TypeError")

\* x["generated_text"]
GetItemStr(x, k) ==
    CASE x.py = "dict" ->
            IF k \in DOMAIN x.d THEN Value(x.d[k]) ELSE Raised("KeyError")
      [] OTHER -> Raised("TypeError")

\* isinstance(data, dict) and "error" in data
HasError(x) == x.py = "dict" /\ "error" \in DOMAIN x.d

(***************************************************************************)
(* The remote endpoint and the secret configuration                        *)
(***************************************************************************)
ErrMsg == JStr(<<"Model is loading">>)

\* JSON documents the endpoint may answer with.
JsonBodies ==
    { JNull, JNum(1), JStr(<<>>), JStr(<<"ok">>),
      JObj1("error", ErrMsg),
      JObj1("estimated_time", JNum(1)),
      JArr(<<>>),
      JArr(<<JStr(<<"t">>)>>),
      JArr(<<JNull>>),
      JArr(<<JArr(<<>>)>>),
      JArr(<<JObj1("score", JNum(1))>>),
      JArr(<<JObj1("error", ErrMsg)>>),
      JArr(<<JObj1("generated_text", JNull)>>),
      JArr(<<JObj1("generated_text", JNum(1))>>) }
    \cup { JArr(<<JObj1("generated_text", JStr(t))>>) : t \in GenTexts }
    \cup { JArr(<<JObj2("generated_text", JStr(t), "error", ErrMsg)>>) :
             t \in {<<"t">>} }
    \cup { JArr(<<JObj1("generated_text", JStr(<<"t">>)),
                  JObj1("generated_text", JStr(<<>>))>>) }

\* Outcomes of requests.post(..., timeout=60): it raises, or a response
\* arrives whose body is a JSON document or is not.
Responses ==
    { [status |-> "raised", exc |-> e] : e \in {"ConnectionError", "Timeout"} }
    \cup { [status |-> "received", json |-> FALSE] }
    \cup { [status |-> "received", json |-> TRUE, body |-> b] : b \in JsonBodies }

NoResponse == [status |-> "none"]
NoData == [py |-> "unset"]
NoReturn == [returned |-> FALSE]

\* st.secrets: no secrets file, a file without HF_API_KEY, a file with it.
SecretStates == {"no_file", "no_key", "key"}

\* st.secrets.get('HF_API_KEY', ''): raises without a secrets file
SecretsGet(s) ==
    CASE s = "no_file" -> Raised("StreamlitSecretNotFoundError")
      [] s = "no_key" -> Value(<<>>)
      [] s = "key" -> Value(<<"hf_token">>)

\* f"Bearer {key}"
Authorization(key) == <<"Bearer ">> \o key

\* `if not headers["Authorization"]`
HeaderMissing(header) == Len(header) = 0

(***************************************************************************)
(* predict_fake_news and explain_with_huggingface                          *)
(***************************************************************************)
\* predict_fake_news(article): the loaded vectorizer and model applied to it
predict_fake_news(article) == lr_model[article]

RealTemplate ==
    << "1. Summary: Article is factually correct.", "\n",
       "2. Tone: Neutral.", "\n",
       "3. Credibility: Reliable sources.", "\n",
       "4. Evidence: Supported by data.", "\n",
       "5. Conclusion: Likely real; trustworthy." >>

FakeTemplate ==
    << "1. Summary: Misleading claims.", "\n",
       "2. Tone: Sensational.", "\n",
       "3. Credibility: Unreliable sources.", "\n",
       "4. Evidence: Unsupported.", "\n",
       "5. Conclusion: Likely fake; verify before trusting." >>

\* The fallback reasoning of the except block.
FallbackReasoning(r) == IF r = 1 THEN RealTemplate ELSE FakeTemplate

\* Faulty variant of Validated: data[0].get("generated_text", ""), so that
\* a first element without the field yields an empty dynamic reasoning.
ValidatedWithDefault(x) ==
    IF HasError(x) THEN Raised("Exception")
    ELSE LET first == GetItem0(x)
         IN  IF ~first.ok THEN first
             ELSE IF first.val.py # "dict" THEN Raised("AttributeError")
             ELSE IF "generated_text" \in DOMAIN first.val.d
             THEN Value(first.val.d["generated_text"])
             ELSE Value(PyStr(<<>>))

\* Lines 87-90: the value returned as reasoning text, or the exception.
Validated(x) ==
    IF HasError(x) THEN Raised("Exception")
    ELSE LET first == GetItem0(x)
         IN  IF first.ok THEN GetItemStr(first.val, "generated_text")
             ELSE first

Returned(text, dyn) == [returned |-> TRUE, text |-> text, is_dynamic |-> dyn]

\* Arguments of the call at line 161 (max_tokens and temperature default).
CallArgs ==
    [article |-> news_text, result |-> result,
     max_tokens |-> MaxTokensDefault, temperature |-> TemperatureDefault]

Keys ==
    [article : Articles, result : Labels,
     max_tokens : {MaxTokensDefault}, temperature : {TemperatureDefault}]

\* Faulty variant of CacheKey: the article is left out of the key.
CacheKeyNoArticle(args) == [args EXCEPT !.article = <<>>]

\* st.cache_data keys an entry by the values of all the arguments.
CacheKey(args) == args

NoEntry == [stored |-> FALSE]

\* What st.cache_data keeps of a finished call: the returned value and the
\* st.warning elements the body drew; args records the call it was made for.
Entry(value, messages) ==
    [stored |-> TRUE, value |-> value, messages |-> messages, args |-> CallArgs]

(***************************************************************************)
(* Initial state: the page has been loaded once, with an empty text area.  *)
(***************************************************************************)
Init ==
    /\ lr_model \in [Articles -> Labels]
    /\ cache = [k \in Keys |-> NoEntry]
    /\ posted = [k \in Keys |-> 0]
    /\ pc = "done"
    /\ news_text = <<>>
    /\ button = FALSE
    /\ result = 0
    /\ verdict_text = <<>>
    /\ shown = {"awaiting"}
    /\ calls = {}
    /\ served = "none"
    /\ secrets = "unread"
    /\ response = NoResponse
    /\ data = NoData
    /\ exc = "none"
    /\ reqs = 0
    /\ warnings = 0
    /\ ret = NoReturn
    /\ lines = <<>>

(***************************************************************************)
(* A script run                                                            *)
(***************************************************************************)
\* Lines 119-123: the user edits the text area or clicks the button and the
\* script runs again from the top.
Rerun ==
    /\ pc \in {"done", "crashed"}
    /\ \E text \in Articles, clicked \in BOOLEAN :
          /\ news_text' = text
          /\ button' = clicked
          /\ shown' = IF clicked /\ IsBlank(text) THEN {"input_warning"} ELSE {}
    /\ pc' = "col_result"
    /\ result' = 0
    /\ verdict_text' = <<>>
    /\ calls' = {}
    /\ served' = "none"
    /\ secrets' = "unread"
    /\ response' = NoResponse
    /\ data' = NoData
    /\ exc' = "none"
    /\ reqs' = 0
    /\ warnings' = 0
    /\ ret' = NoReturn
    /\ lines' = <<>>
    /\ UNCHANGED <<lr_model, cache, posted>>

\* Lines 129-134: nothing to analyse.
AwaitingInput ==
    /\ pc = "col_result"
    /\ IsBlank(news_text)
    /\ shown' = shown \cup {"awaiting"}
    /\ pc' = "done"
    /\ UNCHANGED <<lr_model, cache, posted, news_text, button, result,
                   verdict_text, calls, served, secrets, response, data, exc,
                   reqs, warnings, ret, lines>>

\* Lines 135-157: classify and draw the verdict box.
Predict ==
    /\ pc = "col_result"
    /\ ~IsBlank(news_text)
    /\ calls' = calls \cup {"predict_fake_news"}
    /\ result' = predict_fake_news(news_text)
    /\ verdict_text' = IF result' = 1 THEN <<"REAL">> ELSE <<"FAKE">>
    /\ shown' = shown \cup {"verdict"}
    /\ pc' = "explain"
    /\ UNCHANGED <<lr_model, cache, posted, news_text, button, served, secrets,
                   response, data, exc, reqs, warnings, ret, lines>>

\* Line 161 with a memoized result: the stored value is returned and the
\* stored st.warning elements are drawn again; the body does not run.
CacheHit ==
    /\ pc = "explain"
    /\ cache[CacheKey(CallArgs)].stored
    /\ LET e == cache[CacheKey(CallArgs)]
       IN  /\ ret' = e.value
           /\ warnings' = e.messages
           /\ shown' = IF e.messages > 0 THEN shown \cup {"api_warning"}
                       ELSE shown
    /\ served' = "hit"
    /\ pc' = "render"
    /\ UNCHANGED <<lr_model, cache, posted, news_text, button, result,
                   verdict_text, calls, secrets, response, data, exc, reqs,
                   lines>>

\* Line 161 without one: the body runs (lines 57-72 build the prompt).
CacheMiss ==
    /\ pc = "explain"
    /\ ~cache[CacheKey(CallArgs)].stored
    /\ served' = "miss"
    /\ calls' = calls \cup {"explain_with_huggingface"}
    /\ pc' = "headers"
    /\ UNCHANGED <<lr_model, cache, posted, news_text, button, result,
                   verdict_text, shown, secrets, response, data, exc, reqs,
                   warnings, ret, lines>>

\* Lines 73-77: build the Authorization header and test it.
BuildHeaders ==
    /\ pc = "headers"
    /\ \E s \in SecretStates :
          /\ secrets' = s
          /\ LET got == SecretsGet(s)
             IN  IF ~got.ok
                 THEN exc' = got.exc /\ pc' = "except"
                 ELSE IF HeaderMissing(Authorization(got.val))
                 THEN exc' = "Exception" /\ pc' = "except"
                 ELSE exc' = exc /\ pc' = "post"
    /\ UNCHANGED <<lr_model, cache, posted, news_text, button, result,
                   verdict_text, shown, calls, served, response, data, reqs,
                   warnings, ret, lines>>

\* Faulty variant of Post: a request that raises is sent again.
PostRetry ==
    /\ pc = "post"
    /\ reqs < MaxRequests
    /\ posted[CallArgs] < MaxRequests
    /\ reqs' = reqs + 1
    /\ posted' = [posted EXCEPT ![CallArgs] = @ + 1]
    /\ calls' = calls \cup {"requests.post"}
    /\ \E r \in Responses :
          /\ response' = r
          /\ IF r.status = "raised"
             THEN exc' = r.exc /\ pc' = "post"
             ELSE exc' = exc /\ pc' = "json"
    /\ UNCHANGED <<lr_model, cache, news_text, button, result, verdict_text,
                   shown, served, secrets, data, warnings, ret, lines>>

\* Lines 79-84: the one HTTP POST.
Post ==
    /\ pc = "post"
    /\ reqs < MaxRequests
    /\ posted[CallArgs] < MaxRequests
    /\ reqs' = reqs + 1
    /\ posted' = [posted EXCEPT ![CallArgs] = @ + 1]
    /\ calls' = calls \cup {"requests.post"}
    /\ \E r \in Responses :
          /\ response' = r
          /\ IF r.status = "raised"
             THEN exc' = r.exc /\ pc' = "except"
             ELSE exc' = exc /\ pc' = "json"
    /\ UNCHANGED <<lr_model, cache, news_text, button, result, verdict_text,
                   shown, served, secrets, data, warnings, ret, lines>>

\* Line 86: response.json().
ParseJson ==
    /\ pc = "json"
    /\ IF response.json
       THEN data' = ToPython(response.body) /\ exc' = exc /\ pc' = "validate"
       ELSE data' = data /\ exc' = "JSONDecodeError" /\ pc' = "except"
    /\ UNCHANGED <<lr_model, cache, posted, news_text, button, result,
                   verdict_text, shown, calls, served, secrets, response, reqs,
                   warnings, ret, lines>>

\* Lines 87-90: check the parsed body and return the dynamic reasoning; the
\* decorator stores what the body returned.
Validate ==
    /\ pc = "validate"
    /\ LET v == Validated(data)
       IN  IF v.ok
           THEN /\ ret' = Returned(v.val, TRUE)
                /\ cache' = [cache EXCEPT ![CacheKey(CallArgs)] =
                                Entry(Returned(v.val, TRUE), warnings)]
                /\ exc' = exc
                /\ pc' = "render"
           ELSE /\ exc' = v.exc
                /\ pc' = "except"
                /\ UNCHANGED <<ret, cache>>
    /\ UNCHANGED <<lr_model, posted, news_text, button, result, verdict_text,
                   shown, calls, served, secrets, response, data, reqs,
                   warnings, lines>>

\* Faulty variant of Except: the fallback is returned without st.warning.
ExceptSilent ==
    /\ pc = "except"
    /\ ret' = Returned(PyStr(FallbackReasoning(result)), FALSE)
    /\ cache' = [cache EXCEPT ![CacheKey(CallArgs)] =
                    Entry(Returned(PyStr(FallbackReasoning(result)), FALSE),
                          warnings)]
    /\ pc' = "render"
    /\ UNCHANGED <<lr_model, posted, news_text, button, result, verdict_text,
                   shown, calls, served, secrets, response, data, exc, reqs,
                   warnings, lines>>

\* Lines 92-111: warn and return the fallback reasoning; the decorator
\* stores it like any other returned value.
Except ==
    /\ pc = "except"
    /\ warnings' = warnings + 1
    /\ shown' = shown \cup {"api_warning"}
    /\ ret' = Returned(PyStr(FallbackReasoning(result)), FALSE)
    /\ cache' = [cache EXCEPT ![CacheKey(CallArgs)] =
                    Entry(Returned(PyStr(FallbackReasoning(result)), FALSE),
                          warnings + 1)]
    /\ pc' = "render"
    /\ UNCHANGED <<lr_model, posted, news_text, button, result, verdict_text,
                   calls, served, secrets, response, data, exc, reqs, lines>>

\* Lines 162-186: split the explanation into lines and draw it, then the
\* tip.  str.strip exists on str only: anything else ends the run with an
\* uncaught AttributeError.
Render ==
    /\ pc = "render"
    /\ IF ret.text.py = "str"
       THEN /\ lines' = Split(Strip(ret.text.s))
            /\ shown' = shown \cup {"reasoning", "tip"}
            /\ pc' = "done"
       ELSE /\ lines' = lines
            /\ shown' = shown \cup {"exception"}
            /\ pc' = "crashed"
    /\ UNCHANGED <<lr_model, cache, posted, news_text, button, result,
                   verdict_text, calls, served, secrets, response, data, exc,
                   reqs, warnings, ret>>

Next ==
    \/ Rerun
    \/ AwaitingInput
    \/ Predict
    \/ CacheHit
    \/ CacheMiss
    \/ BuildHeaders
    \/ Post
    \/ ParseJson
    \/ Validate
    \/ Except
    \/ Render

Spec == Init /\ [][Next]_vars

(***************************************************************************)
(* Vocabulary of the properties                                            *)
(***************************************************************************)
\* Every token of s is whitespace (s may be empty).
AllWhitespace(s) == \A i \in 1..Len(s) : s[i] \in Whitespace

\* The call at line 161 has come back to the page.
ExplainDone == served # "none" /\ pc \in {"render", "done", "crashed"}

\* The body of explain_with_huggingface ran in this run and has returned.
BodyDone == served = "miss" /\ pc \in {"render", "done", "crashed"}

\* HF_API_KEY was absent when the body read the secrets.
CredentialAbsent == secrets \in {"no_file", "no_key"}

\* The canned (text, is_dynamic) pair for the label of this run.
CannedForLabel ==
    [returned |-> TRUE,
     text |-> [py |-> "str",
               s |-> IF result = 1 THEN RealTemplate ELSE FakeTemplate],
     is_dynamic |-> FALSE]

\* The body is an array whose first element is an object with the field.
HasGeneratedText(b) ==
    /\ b.type = "array"
    /\ Len(b.items) > 0
    /\ b.items[1].type = "object"
    /\ "generated_text" \in DOMAIN b.items[1].fields

\* ... and the field is a string.
WellFormed(b) ==
    HasGeneratedText(b) /\ b.items[1].fields["generated_text"].type = "string"

\* The remote step failed: the request raised, the body is no JSON, it is
\* an object with an error field, or it has no generated_text at [0].
RemoteStepFailed ==
    \/ response.status = "raised"
    \/ /\ response.status = "received"
       /\ \/ ~response.json
          \/ (response.body.type = "object"
                /\ "error" \in DOMAIN response.body.fields)
          \/ ~HasGeneratedText(response.body)

(***************************************************************************)
(* Properties                                                              *)
(***************************************************************************)
\* C1: if HF_API_KEY is absent, explain_with_huggingface returns the canned
\* template of the label with is_dynamic = False, whatever the endpoint
\* would answer.
C1_AbsentCredentialFallback ==
    (BodyDone /\ CredentialAbsent) => ret = CannedForLabel

\* C2: if HF_API_KEY is absent, the fallback is taken without any HTTP POST
\* being issued.
C2_AbsentCredentialNoPost ==
    CredentialAbsent => (reqs = 0 /\ "requests.post" \notin calls)

\* C3: for all inputs explain_with_huggingface returns a non-empty text and
\* a source that is True or False, and never raises past its boundary.
C3_NonEmptyText ==
    ExplainDone =>
        /\ ret.returned
        /\ ret.is_dynamic \in BOOLEAN
        /\ ret.text.py = "str"
        /\ Len(ret.text.s) > 0

\* C4: every failure of the remote step ends in the same outcome: the
\* canned template selected by the label alone, with is_dynamic = False.
C4_FailuresCollapse ==
    (BodyDone /\ RemoteStepFailed) => ret = CannedForLabel

C4_Witness ==
    /\ BodyDone
    /\ response.status = "received"
    /\ response.json
    /\ response.body = JArr(<<>>)
    /\ ret = CannedForLabel
    /\ result = 0

\* C5: a well-formed body (array, first element an object with a string
\* generated_text) gives is_dynamic = True and that text verbatim.
C5_RemoteVerbatim ==
    (BodyDone /\ response.status = "received" /\ response.json
        /\ WellFormed(response.body))
    => ret = [returned |-> TRUE,
              text |-> [py |-> "str",
                        s |-> response.body.items[1].fields["generated_text"].str],
              is_dynamic |-> TRUE]

C5_Witness ==
    /\ BodyDone
    /\ ret.is_dynamic
    /\ ret.text = PyStr(<<" ", "l1", "\n", "l2", "\n">>)
    /\ pc = "done"

\* C6: for a non-blank article no run ends in an uncaught error: it ends
\* with the verdict and the explanation drawn.
C6_NoFatalError ==
    ~AllWhitespace(news_text) =>
        /\ pc # "crashed"
        /\ pc = "done" => /\ verdict_text \in {<<"REAL">>, <<"FAKE">>}
                          /\ "reasoning" \in shown

\* C7: a blank article is rejected at the form: a submitted one draws the
\* input warning, and neither predict_fake_news nor
\* explain_with_huggingface nor a network request is executed.
C7_EmptyInputRejected ==
    AllWhitespace(news_text) =>
        /\ calls = {}
        /\ reqs = 0
        /\ served = "none"
        /\ ~ret.returned
        /\ button => "input_warning" \in shown

C7_Witness ==
    /\ pc = "done"
    /\ news_text = <<" ", "\n">>
    /\ button
    /\ "input_warning" \in shown
    /\ calls = {}

\* C8: one execution issues at most one network request; a failure goes to
\* the handler and from there to the fallback, without a second request.
C8_SingleRequest ==
    [][ /\ reqs' <= 1
        /\ (pc \in {"post", "json", "validate"} /\ exc' # "none")
              => pc' = "except"
        /\ pc = "except"
              => (pc' = "render" /\ reqs' = reqs /\ ret' = CannedForLabel) ]_vars

C8_Witness ==
    /\ pc = "render"
    /\ reqs = 1
    /\ response.status = "raised"
    /\ ret = CannedForLabel

\* C9: an execution that returns the fallback has emitted exactly one
\* "Hugging Face API failed" warning and the failure does not reach the
\* caller; one that returns dynamic reasoning has emitted none.
C9_WarningIffFallback ==
    BodyDone =>
        /\ ret.returned
        /\ ~ret.is_dynamic => (warnings = 1 /\ "api_warning" \in shown)
        /\ ret.is_dynamic => (warnings = 0 /\ "api_warning" \notin shown)
        /\ (warnings > 0) = (exc # "none")

C9_Witness ==
    /\ BodyDone
    /\ pc = "done"
    /\ ~ret.is_dynamic
    /\ warnings = 1
    /\ exc = "KeyError"

\* C10: a result returned for given arguments is kept for the life of the
\* process and serves every later call with the same arguments, a stored
\* fallback included, without a new request; no pair of arguments is ever
\* posted twice; a call with another article or label is not served from it.
C10_Memoized ==
    /\ [](\A k \in Keys : posted[k] <= 1)
    /\ [][ /\ \A k \in Keys : cache[k].stored => cache'[k] = cache[k]
           /\ pc = "explain" =>
                 IF \E k \in Keys : cache[k].stored /\ cache[k].args = CallArgs
                 THEN /\ served' = "hit"
                      /\ pc' = "render"
                      /\ reqs' = 0 /\ posted' = posted
                      /\ \E k \in Keys : /\ cache[k].stored
                                         /\ cache[k].args = CallArgs
                                         /\ ret' = cache[k].value
                 ELSE served' = "miss" /\ ~ret'.returned ]_vars

C10_Witness ==
    /\ served = "hit"
    /\ pc = "done"
    /\ ret = CannedForLabel
    /\ reqs = 0
    /\ posted[CallArgs] = 1
    /\ \E k \in Keys : cache[k].stored /\ k.article # news_text

====
